---- MODULE Spec2Model ----
(***************************************************************************)
(* Score ingestion and leaderboard aggregation of the kanji test server:   *)
(* initDB, submitScoreHandler, leaderboardHandler, recentScoresHandler     *)
(* and the scores table they share.                                        *)
(*                                                                         *)
(* Strings are sequences of Unicode code points, so that the byte length   *)
(* Go's len() reports and the character length VARCHAR counts differ.      *)
(* A percent is kept exactly: the handler's quotient as a fraction         *)
(* <<numerator, denominator>>, the stored DECIMAL(5,2) as an integer       *)
(* number of hundredths, AVG(percent) as a reduced fraction of hundredths. *)
(* Every database call either reaches the backend or fails, decided call   *)
(* by call: the backend may come and go between any two calls.             *)
(***************************************************************************)
EXTENDS Integers, Sequences, FiniteSets, Bags, TLC

VARIABLES
  phase,   \* "boot" before main has run initDB, "serving" afterwards
  db,      \* the global handle: "nil" or "open"
  table,   \* whether the scores table exists in the backend
  store,   \* the rows of scores, in insertion order
  base,    \* the number of rows earlier runs left
  nextId,  \* the next value of the SERIAL sequence behind id
  clock,   \* the latest CURRENT_TIMESTAMP the backend has handed out
  req,     \* the bag of requests stopped just before their database call
  resp     \* the response the step just taken wrote, if it wrote one

vars == <<phase, db, table, store, base, nextId, clock, req, resp>>

(* ------------------------------ bounds -------------------------------- *)

\* Request handlers that may be in flight at once.
NumHandlers == 2

\* Rows the running process may add to the table left by earlier runs.
MaxInserts == 2

\* Rows of one leaderboard query whose Scan may fail.
MaxScanFail == 1

\* Sequence values failed INSERTs may use up.
MaxGaps == 1

(* -------------------------- program constants ------------------------- *)

NameLimit == 50

LeaderboardLimit == 10

RecentLimit == 5

RangesLimit == 255

\* The largest value of an INTEGER column.
IntegerMax == 2147483647

(* ------------------------------ strings ------------------------------- *)

\* unicode.IsSpace, as strings.TrimSpace uses it: 32 is the space, 12288
\* the ideographic space.
IsSpace(c) == c \in {9, 10, 11, 12, 13, 32, 133, 160, 5760, 8232, 8233, 8239, 8287, 12288}
                 \/ (c >= 8192 /\ c <= 8202)

\* Bytes of one code point in UTF-8.
Utf8Len(c) == IF c < 128 THEN 1 ELSE IF c < 2048 THEN 2 ELSE IF c < 65536 THEN 3 ELSE 4

RECURSIVE ByteLen(_)
\* Go's len(s): the number of bytes of the string.
ByteLen(s) == IF s = <<>> THEN 0 ELSE Utf8Len(Head(s)) + ByteLen(Tail(s))

\* The number of characters of the string, as VARCHAR(n) counts them.
CharLen(s) == Len(s)

RECURSIVE TrimLeft(_)
TrimLeft(s) == IF s # <<>> /\ IsSpace(Head(s)) THEN TrimLeft(Tail(s)) ELSE s

RECURSIVE TrimRight(_)
TrimRight(s) ==
  IF s # <<>> /\ IsSpace(s[Len(s)]) THEN TrimRight(SubSeq(s, 1, Len(s) - 1)) ELSE s

\* strings.TrimSpace
TrimSpace(s) == TrimRight(TrimLeft(s))

RECURSIVE Rep(_, _)
Rep(c, n) == IF n = 0 THEN <<>> ELSE <<c>> \o Rep(c, n - 1)

(* ----------------------------- arithmetic ----------------------------- *)

Abs(x) == IF x < 0 THEN -x ELSE x

RECURSIVE GCD(_, _)
GCD(a, b) == IF b = 0 THEN a ELSE GCD(b, a % b)

\* n/d (d > 0) rounded to the nearest integer, halves away from zero.
RoundHalfAway(n, d) ==
  IF n >= 0 THEN (2 * n + d) \div (2 * d) ELSE -((2 * (-n) + d) \div (2 * d))

\* The fraction n/d (d > 0) in lowest terms.
Frac(n, d) == LET g == GCD(Abs(n), d) IN <<n \div g, d \div g>>

FracGreater(p, q) == p[1] * q[2] > q[1] * p[2]

Min(a, b) == IF a < b THEN a ELSE b

(* --------------------------- the scores table ------------------------- *)

\* percent := 0.0; if req.Total > 0 { percent = score / total * 100 }
CalcPercent(score, total) == IF total > 0 THEN <<score * 100, total>> ELSE <<0, 1>>

\* The value a DECIMAL(5,2) column keeps of p, in hundredths.
ToDecimal52(p) == RoundHalfAway(p[1] * 100, p[2])

\* A DECIMAL(5,2) holds absolute values below 10^3.
FitsDecimal52(h) == Abs(h) < 100000

FitsInteger(n) == n >= -IntegerMax - 1 /\ n <= IntegerMax

\* The column constraints of CREATE TABLE scores.
RowFits(name, score, total, percent, ranges) ==
  /\ CharLen(name) <= NameLimit
  /\ FitsInteger(score)
  /\ FitsInteger(total)
  /\ FitsDecimal52(ToDecimal52(percent))
  /\ CharLen(ranges) <= RangesLimit

\* One row of scores.
Score(id, name, score, total, percent, ranges, created_at) ==
  [id |-> id, name |-> name, score |-> score, total |-> total,
   percent |-> ToDecimal52(percent), ranges |-> ranges, created_at |-> created_at]

\* The row is written although the statement reports an error.
InsertRowAnyway(s, row, ok) == Append(s, row)

\* What INSERT INTO scores leaves in the table: the row when the statement
\* succeeds, nothing when it fails.
InsertRow(s, row, ok) == IF ok THEN Append(s, row) ELSE s

\* The table is dropped and created afresh.
CreateTablesAfresh(s) == <<>>

\* What CREATE TABLE IF NOT EXISTS and the two CREATE INDEX IF NOT EXISTS
\* leave of the rows already there.
CreateTables(s) == s

(* -------------------------- state at startup -------------------------- *)

NAME_A == <<65>>

NAME_B == <<66>>

\* A row an earlier run of the server inserted: id and created_at in
\* insertion order, percent derived as the handler derives it.
Earlier(i, name, score, total) ==
  Score(i, name, score, total, CalcPercent(score, total), <<>>, i)

ExampleLog ==
  << Earlier(1, NAME_A, 10, 10), Earlier(2, NAME_A, 0, 10), Earlier(3, NAME_B, 5, 10) >>

\* One row for each of LeaderboardLimit further names.
FullLog == [i \in 1..LeaderboardLimit |-> Earlier(i, <<66 + i>>, i, 10)]

\* The tables earlier runs may have left.
Logs == {<<>>, ExampleLog, FullLog}

\* A request without a body the handler reads.
NoBody == [none |-> TRUE]

\* A response: the handler (op), the HTTP status (0: none was written), the
\* body the request came with, the rows of the JSON answer, the error the
\* handler logged for its database call (log) and the number of "Error
\* scanning row" lines it logged (skipped).
Response(op, status, body, rows, log, skipped) ==
  [op |-> op, status |-> status, body |-> body, rows |-> rows, log |-> log,
   skipped |-> skipped]

NoResp == Response("none", 0, NoBody, <<>>, "", 0)

Init ==
  /\ phase = "boot"
  /\ db = "nil"
  /\ store \in Logs
  /\ table \in (IF store = <<>> THEN BOOLEAN ELSE {TRUE})
  /\ base = Len(store)
  /\ nextId = Len(store) + 1
  /\ clock = Len(store) + 1
  /\ req = EmptyBag
  /\ resp = NoResp

(* ------------------------------ requests ------------------------------ *)

Methods == {"GET", "POST"}

RANGES_1_10 == <<49, 45, 49, 48>>

Body(name, score, total, ranges) ==
  [name |-> name, score |-> score, total |-> total, ranges |-> ranges]

\* A request body json.Decode rejects.
Malformed == [malformed |-> TRUE]

\* The request bodies submitted while requests overlap.
FewBodies ==
  { Body(<<32>> \o NAME_A \o <<32>>, 1, 1, RANGES_1_10),
    Body(NAME_B, 1, 1, <<>>),
    Body(<<>>, 1, 1, <<>>),
    Malformed }

\* The request bodies submitted one after the other: names around the
\* limit, of one-byte letters (120 is "x") and of three-byte kanji (28450),
\* and scores around the percent a DECIMAL(5,2) holds.
Bodies ==
  { Body(<<32>> \o NAME_A \o <<32>>, 1, 1, RANGES_1_10),
    Body(NAME_A, 1, 3, <<>>),
    Body(NAME_A, 5, 0, <<>>),
    Body(NAME_A, 10, 1, <<>>),
    Body(NAME_B, 2, 3, <<>>),
    Body(NAME_B, 3, 2, <<>>),
    Body(<<>>, 1, 1, <<>>),
    Body(<<32, 12288>>, 1, 1, <<>>),
    Body(Rep(120, NameLimit), 1, 1, <<>>),
    Body(Rep(120, NameLimit + 1), 1, 1, <<>>),
    Body(Rep(28450, NameLimit \div 3 + 1), 1, 1, <<>>),
    Body(Rep(28450, NameLimit \div 3), 2, 3, <<>>),
    Malformed }

\* The server is up and a handler is free for the next request.
Free == phase = "serving" /\ BagCardinality(req) < NumHandlers

\* The handler of r stops before its database call.
Stopped(r) == req (+) SetToBag({r})

\* The handler of r has returned.
Returned(r) == req (-) SetToBag({r})

\* http.Error(w, ..., status), or {"status": "ok"}.
Reply(op, status, body, log) == Response(op, status, body, <<>>, log, 0)

(* ------------------------------- initDB ------------------------------- *)

\* main: initDB, whose error is logged and otherwise ignored, then serve.
\* sql.Open may fail (db stays nil), db.Ping may fail, the DDL may fail.
initDB ==
  /\ phase = "boot"
  /\ phase' = "serving"
  /\ \/ /\ db' = "nil"
        /\ UNCHANGED <<table, store>>
     \/ /\ db' = "open"
        /\ UNCHANGED <<table, store>>
     \/ /\ db' = "open"
        /\ table' = TRUE
        /\ store' = CreateTables(store)
  /\ UNCHANGED <<base, nextId, clock, req, resp>>

\* The process is stopped and started again: the handlers in flight are
\* gone, the table stays.
Restart ==
  /\ phase = "serving"
  /\ phase' = "boot"
  /\ db' = "nil"
  /\ req' = EmptyBag
  /\ resp' = NoResp
  /\ UNCHANGED <<table, store, base, nextId, clock>>

(* -------------------------- submitScoreHandler ------------------------ *)

\* len(name) == 0 || len(name) > 50
InvalidName(name) == ByteLen(name) = 0 \/ ByteLen(name) > NameLimit

\* The handler up to its database call: method, JSON, name, percent.
SubmitRecv(bodies) ==
  /\ Free
  /\ \E m \in Methods :
       IF m # "POST"
         THEN /\ resp' = Reply("score", 405, NoBody, "")
              /\ req' = req
       ELSE \E b \in bodies :
       IF b = Malformed
         THEN /\ resp' = Reply("score", 400, b, "")
              /\ req' = req
       ELSE LET name == TrimSpace(b.name) IN
            IF InvalidName(name)
              THEN /\ resp' = Reply("score", 400, b, "")
                   /\ req' = req
              ELSE /\ req' = Stopped([op |-> "score", body |-> b, name |-> name,
                                        percent |-> CalcPercent(b.score, b.total)])
                   /\ resp' = NoResp
  /\ UNCHANGED <<phase, db, table, store, base, nextId, clock>>

\* db.Exec("INSERT INTO scores ..."), then the response. On a nil db the
\* call panics: net/http recovers, nothing is written (status 0). ticks:
\* by how much CURRENT_TIMESTAMP may have moved on since the last INSERT.
SubmitExec(r, ticks) ==
  /\ r.op = "score"
  /\ req' = Returned(r)
  /\ IF db = "nil"
       THEN /\ resp' = Reply("score", 0, r.body, "")
            /\ UNCHANGED <<store, nextId, clock>>
       ELSE \E reach \in BOOLEAN :
              LET fits == RowFits(r.name, r.body.score, r.body.total, r.percent, r.body.ranges)
                  err  == IF ~reach THEN "connect"
                          ELSE IF ~table THEN "relation"
                          ELSE IF ~fits THEN "range" ELSE ""
                  ok   == err = ""
              IN \E dt \in (IF ok THEN ticks ELSE {0}) :
                   LET row == Score(nextId, r.name, r.body.score, r.body.total, r.percent,
                                    r.body.ranges, clock + dt)
                   IN /\ ok => Len(store) - base < MaxInserts
                      /\ err = "range" => nextId - Len(store) - 1 < MaxGaps
                      /\ store' = InsertRow(store, row, ok)
                      /\ nextId' = IF reach /\ table THEN nextId + 1 ELSE nextId
                      /\ clock' = clock + dt
                      /\ resp' = Reply("score", IF ok THEN 200 ELSE 500, r.body, err)
  /\ UNCHANGED <<phase, db, table, base>>

(* --------------------------- leaderboardHandler ----------------------- *)

RECURSIVE SumOver(_, _, _)
\* The sum of field f over the rows of s at the positions idx.
SumOver(s, idx, f) ==
  IF idx = {} THEN 0
  ELSE LET i == CHOOSE j \in idx : TRUE IN s[i][f] + SumOver(s, idx \ {i}, f)

\* SUM(percent) in the place of AVG(percent).
AggregateSumPercent(s, name) ==
  LET idx == {i \in DOMAIN s : s[i].name = name}
  IN [name |-> name,
      total_score |-> SumOver(s, idx, "score"),
      tests_taken |-> Cardinality(idx),
      avg_percent |-> Frac(SumOver(s, idx, "percent"), 1)]

\* SELECT name, SUM(score), COUNT(*), AVG(percent) ... for one group.
Aggregate(s, name) ==
  LET idx == {i \in DOMAIN s : s[i].name = name}
  IN [name |-> name,
      total_score |-> SumOver(s, idx, "score"),
      tests_taken |-> Cardinality(idx),
      avg_percent |-> Frac(SumOver(s, idx, "percent"), Cardinality(idx))]

\* GROUP BY name
GroupBy(s) == {Aggregate(s, n) : n \in {s[i].name : i \in DOMAIN s}}

\* ORDER BY total_score DESC alone.
BeforeByTotal(a, b) == a.total_score > b.total_score

\* ORDER BY total_score DESC, avg_percent DESC: a sorts strictly before b.
Before(a, b) ==
  \/ a.total_score > b.total_score
  \/ a.total_score = b.total_score /\ FracGreater(a.avg_percent, b.avg_percent)

\* ORDER BY created_at DESC: a sorts strictly before b.
Newer(a, b) == a.created_at > b.created_at

RECURSIVE OrderAggregate(_, _)
\* Every result ORDER BY total_score DESC, avg_percent DESC LIMIT n may
\* return of the groups S: groups that tie on both keys come in any order.
OrderAggregate(S, n) ==
  IF S = {} \/ n = 0 THEN {<<>>}
  ELSE UNION { { <<x>> \o t : t \in OrderAggregate(S \ {x}, n - 1) } :
               x \in {y \in S : \A z \in S : ~Before(z, y)} }

RECURSIVE OrderRecent(_, _)
\* Every result ORDER BY created_at DESC LIMIT n may return of the rows S:
\* rows of one created_at come in any order.
OrderRecent(S, n) ==
  IF S = {} \/ n = 0 THEN {<<>>}
  ELSE UNION { { <<x>> \o t : t \in OrderRecent(S \ {x}, n - 1) } :
               x \in {y \in S : \A z \in S : ~Newer(z, y)} }

\* The aggregate query of leaderboardHandler.
QueryAggregate(s) == OrderAggregate(GroupBy(s), LeaderboardLimit)

\* entry.Rank = rank
LeaderboardEntry(rank, row) ==
  [rank |-> rank, name |-> row.name, total_score |-> row.total_score,
   tests_taken |-> row.tests_taken, avg_percent |-> row.avg_percent]

\* rank++ ahead of the Scan.
RankAfterSkipNext(rank) == rank + 1

\* rank after a row whose Scan failed: the loop continues before rank++.
RankAfterSkip(rank) == rank

RECURSIVE ScanLeaderboard(_, _, _, _)
\* for rows.Next() { Scan: on error continue; entry.Rank = rank; append; rank++ }
\* from row i on, the rows at the positions fail failing to scan.
ScanLeaderboard(rows, i, rank, fail) ==
  IF i > Len(rows) THEN <<>>
  ELSE IF i \in fail THEN ScanLeaderboard(rows, i + 1, RankAfterSkip(rank), fail)
  ELSE <<LeaderboardEntry(rank, rows[i])>> \o ScanLeaderboard(rows, i + 1, rank + 1, fail)

\* The handler up to its database call: the method.
LeaderboardRecv ==
  /\ Free
  /\ \E m \in Methods :
       IF m # "GET"
         THEN /\ resp' = Reply("leaderboard", 405, NoBody, "")
              /\ req' = req
         ELSE /\ req' = Stopped([op |-> "leaderboard"])
              /\ resp' = NoResp
  /\ UNCHANGED <<phase, db, table, store, base, nextId, clock>>

\* db.Query, the scan loop, then the response.
LeaderboardExec(r) ==
  /\ r.op = "leaderboard"
  /\ req' = Returned(r)
  /\ IF db = "nil"
       THEN resp' = Reply("leaderboard", 0, NoBody, "")
       ELSE \/ resp' = Reply("leaderboard", 500, NoBody, "connect")
            \/ /\ ~table
               /\ resp' = Reply("leaderboard", 500, NoBody, "relation")
            \/ /\ table
               /\ \E rows \in QueryAggregate(store) :
                    \E fail \in {f \in SUBSET (1..Len(rows)) : Cardinality(f) <= MaxScanFail} :
                      resp' = Response("leaderboard", 200, NoBody,
                                       ScanLeaderboard(rows, 1, 1, fail), "",
                                       Cardinality(fail))
  /\ UNCHANGED <<phase, db, table, store, base, nextId, clock>>

(* --------------------------- recentScoresHandler ---------------------- *)

\* SELECT name, score, total, percent, ranges, created_at scanned into a
\* Score: the id is not selected and stays 0.
RecentRow(row) == [row EXCEPT !.id = 0]

\* The query of recentScoresHandler.
QueryRecent(s) == OrderRecent({s[i] : i \in DOMAIN s}, RecentLimit)

RecentRecv ==
  /\ Free
  /\ \E m \in Methods :
       IF m # "GET"
         THEN /\ resp' = Reply("recent", 405, NoBody, "")
              /\ req' = req
         ELSE /\ req' = Stopped([op |-> "recent"])
              /\ resp' = NoResp
  /\ UNCHANGED <<phase, db, table, store, base, nextId, clock>>

\* db.Query, the scan loop, then the response. No row this program
\* inserts fails to scan into a Score: no column of it is NULL.
RecentExec(r) ==
  /\ r.op = "recent"
  /\ req' = Returned(r)
  /\ IF db = "nil"
       THEN resp' = Reply("recent", 0, NoBody, "")
       ELSE \/ resp' = Reply("recent", 500, NoBody, "connect")
            \/ /\ ~table
               /\ resp' = Reply("recent", 500, NoBody, "relation")
            \/ /\ table
               /\ \E rows \in QueryRecent(store) :
                    resp' = Response("recent", 200, NoBody,
                                     [i \in 1..Len(rows) |-> RecentRow(rows[i])], "", 0)
  /\ UNCHANGED <<phase, db, table, store, base, nextId, clock>>

(* ---------------------------- specification --------------------------- *)

Next ==
  \/ initDB
  \/ Restart
  \/ SubmitRecv(FewBodies)
  \/ \E r \in BagToSet(req) : SubmitExec(r, {0, 1})
  \/ LeaderboardRecv
  \/ \E r \in BagToSet(req) : LeaderboardExec(r)
  \/ RecentRecv
  \/ \E r \in BagToSet(req) : RecentExec(r)

Spec == Init /\ [][Next]_vars

\* Submissions handled one after the other, each at a CURRENT_TIMESTAMP of
\* its own, on a table that starts empty.
InitSubmit == Init /\ store = <<>>

NextSubmit ==
  \/ initDB
  \/ Restart
  \/ req = EmptyBag /\ SubmitRecv(Bodies)
  \/ \E r \in BagToSet(req) : SubmitExec(r, {1})

SpecSubmit == InitSubmit /\ [][NextSubmit]_vars

(* ======================================================================= *)
(* The claims.                                                             *)
(* ======================================================================= *)

\* The request came with a body json.Decode accepted.
Decoded(b) == b \notin {NoBody, Malformed}

\* The last row of the table.
LastRow == store[Len(store)]

RECURSIVE Tally(_, _, _)
\* The sum of field f over the first n rows of the table named name,
\* counting 1 per row for f = "rows".
Tally(n, name, f) ==
  IF n = 0 THEN 0
  ELSE Tally(n - 1, name, f)
       + (IF store[n].name # name THEN 0 ELSE IF f = "rows" THEN 1 ELSE store[n][f])

NamesStored == {store[i].name : i \in DOMAIN store}

\* score/total x 100 rounded to 2 decimals (in hundredths), 0 when total is not > 0.
DerivedPercent(score, total) ==
  IF total > 0 THEN RoundHalfAway(score * 10000, total) ELSE 0

\* C1: POST /api/score answers 400 exactly when the trimmed name has 0 or
\* more than 50 characters, and a submission answered 200 is stored under
\* exactly the trimmed name.
C1_NameRule ==
  (resp.op = "score" /\ resp.status # 405 /\ Decoded(resp.body)) =>
    /\ resp.status = 400 <=> CharLen(TrimSpace(resp.body.name)) \notin 1..NameLimit
    /\ resp.status = 200 => (store # <<>> /\ LastRow.name = TrimSpace(resp.body.name))

\* C2: a submission with a valid name that reaches an initialised backend is
\* persisted, whatever score and total are, with percent = score/total x 100
\* rounded to 2 decimals (0 when total is not > 0); and every stored percent
\* equals the value derived from its row's score and total.
C2_PercentStored ==
  /\ (resp.op = "score" /\ resp.status \in {200, 500} /\ resp.log \notin {"connect", "relation"}) =>
       /\ resp.status = 200
       /\ store # <<>>
       /\ LastRow.score = resp.body.score
       /\ LastRow.total = resp.body.total
       /\ LastRow.percent = DerivedPercent(resp.body.score, resp.body.total)
  /\ \A i \in DOMAIN store : store[i].percent = DerivedPercent(store[i].score, store[i].total)

\* The step just taken answered a POST /api/score with 200.
Accepted == resp.op = "score" /\ resp.status = 200

\* C3: the table changes only in a step that answers a POST /api/score with
\* 200, and that step appends exactly one row, the submitted one; every
\* other step (a 400, 405 or 500, a GET, initDB, a restart) leaves it as it is.
C3_OnlyAcceptedWrites ==
  [][ IF Accepted'
        THEN /\ Len(store') = Len(store) + 1
             /\ SubSeq(store', 1, Len(store)) = store
             /\ LastRow'.name = TrimSpace(resp'.body.name)
             /\ LastRow'.score = resp'.body.score
             /\ LastRow'.total = resp'.body.total
        ELSE store' = store ]_vars

\* A submission failed with 500 after another one was stored.
C3_Witness ==
  /\ resp.op = "score"
  /\ resp.status = 500
  /\ Len(store) = base + 1

\* The leaderboard was just answered with 200.
Ranked == resp.op = "leaderboard" /\ resp.status = 200

\* The entry of the response for name, if there is one.
EntriesOf(name) == {i \in DOMAIN resp.rows : resp.rows[i].name = name}

\* C4: for every name in the response of GET /api/leaderboard, total_score
\* is the sum of score over the rows of that name, tests_taken their number
\* and avg_percent the mean of their stored percent; no name has two entries.
C4_Aggregates ==
  Ranked =>
    \A i \in DOMAIN resp.rows :
      LET e == resp.rows[i]
          n == Tally(Len(store), e.name, "rows")
      IN /\ n > 0
         /\ e.total_score = Tally(Len(store), e.name, "score")
         /\ e.tests_taken = n
         /\ e.avg_percent[1] * n = Tally(Len(store), e.name, "percent") * e.avg_percent[2]
         /\ EntriesOf(e.name) = {i}

\* The response to (A,10,10), (A,0,10), (B,5,10): A 10/2/50.00 above B 5/1/50.00.
C4_Witness ==
  /\ Ranked
  /\ store = ExampleLog
  /\ Len(resp.rows) = 2
  /\ resp.rows[1] = LeaderboardEntry(1, [name |-> NAME_A, total_score |-> 10,
                                         tests_taken |-> 2, avg_percent |-> <<5000, 1>>])
  /\ resp.rows[2] = LeaderboardEntry(2, [name |-> NAME_B, total_score |-> 5,
                                         tests_taken |-> 1, avg_percent |-> <<5000, 1>>])

\* Per name stored: the total of score, the total of percent and the
\* number of rows, recomputed row by row.
Totals ==
  {[name |-> n,
    score |-> Tally(Len(store), n, "score"),
    percent |-> Tally(Len(store), n, "percent"),
    rows |-> Tally(Len(store), n, "rows")] : n \in NamesStored}

\* With the totals t: name a ranks strictly above name b, by a higher total
\* of score or, at the same total, a higher mean of percent.
Outranks(t, a, b) ==
  LET ta == CHOOSE k \in t : k.name = a
      tb == CHOOSE k \in t : k.name = b
  IN \/ ta.score > tb.score
     \/ ta.score = tb.score /\ ta.percent * tb.rows > tb.percent * ta.rows

\* The entries are in the order of the two keys.
InKeyOrder(t) ==
  \A i, j \in DOMAIN resp.rows :
    i < j => ~Outranks(t, resp.rows[j].name, resp.rows[i].name)

\* The names left out of the response that outrank a name in it.
Overtaken(t) ==
  {a \in NamesStored :
     /\ \A i \in DOMAIN resp.rows : resp.rows[i].name # a
     /\ \E i \in DOMAIN resp.rows : Outranks(t, a, resp.rows[i].name)}

\* C5 as stated: the entries are ordered by total_score descending, ties by
\* avg_percent descending, and no name left out outranks a name included.
C5_TopInOrder ==
  Ranked => LET t == Totals IN InKeyOrder(t) /\ Overtaken(t) = {}

\* C5 as amended: the entries are in that order, and the names left out
\* that outrank an included name are rows logged as failing to scan: none
\* when no row fails.
C5_TopInOrderOfScanned ==
  Ranked => LET t == Totals IN InKeyOrder(t) /\ Cardinality(Overtaken(t)) <= resp.skipped

\* Eleven names, none skipped: A (total 1, mean 100.00) takes the last
\* place and C (total 1, mean 10.00) is left out.
C5_Witness ==
  /\ Ranked
  /\ resp.skipped = 0
  /\ Cardinality(NamesStored) > LeaderboardLimit
  /\ Len(resp.rows) = LeaderboardLimit
  /\ resp.rows[LeaderboardLimit].name = NAME_A
  /\ resp.rows[LeaderboardLimit].total_score = 1

\* The ranks are 1, 2, ... in response order.
DenseRanks == \A i \in DOMAIN resp.rows : resp.rows[i].rank = i

\* C6 as stated: ranks are dense and 1-based in response order, and the
\* number of entries is min(10, distinct names), also when a row is skipped.
C6_RanksAndCount ==
  Ranked =>
    /\ DenseRanks
    /\ Len(resp.rows) = Min(LeaderboardLimit, Cardinality(NamesStored))

\* C6 as amended: ranks are dense and 1-based in response order, and the
\* number of entries is min(10, distinct names) less the rows skipped, so
\* never more than 10.
C6_RanksAndCountOfScanned ==
  Ranked =>
    /\ DenseRanks
    /\ Len(resp.rows) = Min(LeaderboardLimit, Cardinality(NamesStored)) - resp.skipped
    /\ Len(resp.rows) <= LeaderboardLimit

\* A row before the last one failed to scan: nine entries of twelve names.
C6_Witness ==
  /\ Ranked
  /\ resp.skipped = 1
  /\ Cardinality(NamesStored) > LeaderboardLimit
  /\ Len(resp.rows) = LeaderboardLimit - 1
  /\ resp.rows[1].total_score < LeaderboardLimit

\* The recent list was just answered with 200.
Listed == resp.op = "recent" /\ resp.status = 200

\* The columns of a row that GET /api/recent returns.
Shown(row) ==
  <<row.name, row.score, row.total, row.percent, row.ranges, row.created_at>>

\* C7: GET /api/recent returns exactly the min(5, N) rows inserted last,
\* newest first, and created_at never decreases in insertion order, also
\* for submissions that receive equal timestamps.
C7_NewestFirst ==
  /\ \A i, j \in DOMAIN store : i < j => store[i].created_at <= store[j].created_at
  /\ Listed =>
       /\ Len(resp.rows) = Min(RecentLimit, Len(store))
       /\ \A k \in DOMAIN resp.rows : Shown(resp.rows[k]) = Shown(store[Len(store) + 1 - k])

\* The request got as far as its database call.
ReachedStore == resp.op # "none" /\ resp.status \notin {400, 405}

\* C8: when initDB failed (sql.Open, Ping or the DDL) or the backend is
\* unreachable at request time, a request that gets to the store is
\* answered with 500: no handler crashes and no other answer is given.
C8_DegradedIs500 ==
  (ReachedStore /\ (db = "nil" \/ ~table \/ resp.log = "connect")) => resp.status = 500

\* The ids grow strictly along the table.
IdsIncrease == \A i, j \in DOMAIN store : i < j => store[i].id < store[j].id

\* C9: the table is an append-only log, across requests and repeated
\* initDB: a row once stored stays, with every field as stored; ids are
\* distinct and strictly increasing in insertion order.
C9_AppendOnly ==
  [][ /\ Len(store') >= Len(store)
      /\ SubSeq(store', 1, Len(store)) = store
      /\ IdsIncrease' ]_vars

\* After a restart, initDB ran again over two rows of one name, stored
\* around an INSERT that failed and used up an id.
C9_Witness ==
  /\ phase = "serving"
  /\ db = "open"
  /\ req = EmptyBag
  /\ resp = NoResp
  /\ Len(store) = 2
  /\ store[1].name = store[2].name
  /\ store[2].id > store[1].id + 1

\* C10: a GET reflects every submission answered 200 before it: the row
\* is counted in its name's total_score and tests_taken, and the row
\* inserted last is the first entry of the recent list.
C10_ReadsAreFresh ==
  /\ Ranked =>
       \A i \in DOMAIN resp.rows :
         /\ resp.rows[i].tests_taken = Cardinality({k \in DOMAIN store : store[k].name = resp.rows[i].name})
         /\ resp.rows[i].total_score = Tally(Len(store), resp.rows[i].name, "score")
  /\ (Listed /\ store # <<>>) =>
       (resp.rows # <<>> /\ Shown(resp.rows[1]) = Shown(LastRow))

====
